---- MODULE Spec2Model ----
(***************************************************************************)
(* Model of the cart cache of examples/onlineboutique/cartservice/cache.go *)
(* (cartCacheImpl.Add, Get, Remove) together with the Redis list store it  *)
(* talks to.  Every store command is one atomic step, so that calls made   *)
(* by different callers interleave command by command, the key's expiry    *)
(* elapses between commands, and a command may fail or be cancelled either *)
(* before or after the store has applied it.                               *)
(* The component's startup (config.Validate, cartCacheImpl.Init) and the   *)
(* JSON encoding of a line item are modelled on their own, in SpecStartup  *)
(* and SpecCodec.                                                          *)
(***************************************************************************)
EXTENDS Integers, Sequences, FiniteSets, TLC

\* ------------------------------------------------------------------ bounds
MaxItems == 2          \* longest val slice handed to Add
MaxLen == 3            \* longest list the store is allowed to grow to
ttl == 2               \* c.ttl, the configured TTL, in clock ticks
MaxCalls == 3          \* calls made in one run
MaxIDLen == 2          \* longest product identifier put through the encoding, in bytes

\* ------------------------------------------------------------- value sets
Callers == {"c1", "c2"}
Keys == {"k1", "k2"}
ProductIDs == {<<112, 49>>, <<112, 50>>}      \* the strings "p1" and "p2", as bytes
Quantities == {1}

\* CartItem: a product identifier and a quantity.
CartItem == [ProductID : ProductIDs, Quantity : Quantities]

\* The val slices a caller may hand to Add.
RECURSIVE SeqsUpTo(_, _)
SeqsUpTo(S, n) ==
    IF n = 0 THEN {<<>>}
    ELSE LET shorter == SeqsUpTo(S, n - 1)
         IN  shorter \cup {Append(s, x) : s \in {t \in shorter : Len(t) = n - 1}, x \in S}

Vals == SeqsUpTo(CartItem, MaxItems)

\* ---------------------------------------------------------------- errors
Nil == "nil"                       \* the nil error
RedisNil == "redis.Nil"            \* go-redis' sentinel for a nil reply
ErrNotFound == "not found"         \* errNotFound{}
ErrTransport == "transport"        \* any network/store failure
ErrCanceled == "context canceled"  \* ctx cancelled or timed out
ErrDecode == "json: decode"        \* json.Unmarshal's error

\* ------------------------------------------------------------- encoding
\* A Go string is a sequence of bytes.  json.Marshal writes a string as JSON
\* text: it escapes the quote, the backslash, control characters and <, >, &,
\* writes each byte that is not part of a valid UTF-8 sequence as the escape
\* of U+FFFD, and copies everything else.  json.Unmarshal undoes the escapes.
Cont(b) == b >= 128 /\ b <= 191

\* utf8.DecodeRune: the width of the valid UTF-8 sequence at the head of s,
\* or 0 when the first byte starts none.
RuneLen(s) ==
    LET n == Len(s)
        b == s[1]
    IN  IF b < 128 THEN 1
        ELSE IF b >= 194 /\ b <= 223
             THEN IF n >= 2 /\ Cont(s[2]) THEN 2 ELSE 0
        ELSE IF b >= 224 /\ b <= 239
             THEN IF /\ n >= 3 /\ Cont(s[2]) /\ Cont(s[3])
                     /\ (b = 224 => s[2] >= 160)
                     /\ (b = 237 => s[2] <= 159)
                  THEN 3 ELSE 0
        ELSE IF b >= 240 /\ b <= 244
             THEN IF /\ n >= 4 /\ Cont(s[2]) /\ Cont(s[3]) /\ Cont(s[4])
                     /\ (b = 240 => s[2] >= 144)
                     /\ (b = 244 => s[2] <= 143)
                  THEN 4 ELSE 0
        ELSE 0

RECURSIVE ValidUTF8(_)
ValidUTF8(s) ==
    \/ s = <<>>
    \/ /\ RuneLen(s) > 0
       /\ ValidUTF8(SubSeq(s, RuneLen(s) + 1, Len(s)))

HexDigit(n) == IF n < 10 THEN 48 + n ELSE 87 + n

HexVal(b) ==
    IF b >= 48 /\ b <= 57 THEN b - 48
    ELSE IF b >= 97 /\ b <= 102 THEN b - 87
    ELSE IF b >= 65 /\ b <= 70 THEN b - 55
    ELSE -1

\* The escape \uXXXX of a code point below 65536.
UEscape(cp) ==
    <<92, 117, HexDigit(cp \div 4096), HexDigit((cp \div 256) % 16),
      HexDigit((cp \div 16) % 16), HexDigit(cp % 16)>>

RuneError == 65533

\* utf8.AppendRune for a code point below 65536; a surrogate half is written
\* as U+FFFD.
EncodeRune(cp) ==
    IF cp < 128 THEN <<cp>>
    ELSE IF cp < 2048 THEN <<192 + (cp \div 64), 128 + (cp % 64)>>
    ELSE IF cp >= 55296 /\ cp <= 57343 THEN <<239, 191, 189>>
    ELSE <<224 + (cp \div 4096), 128 + ((cp \div 64) % 64), 128 + (cp % 64)>>

\* encoding/json's string encoder, on the bytes of the string.
RECURSIVE EncodeString(_)
EncodeString(s) ==
    IF s = <<>> THEN <<>>
    ELSE LET w == RuneLen(s)
             b == s[1]
         IN  IF w = 0 THEN UEscape(RuneError) \o EncodeString(Tail(s))
             ELSE IF w = 1
                  THEN (IF b = 34 \/ b = 92 THEN <<92, b>>
                        ELSE IF b = 10 THEN <<92, 110>>
                        ELSE IF b = 13 THEN <<92, 114>>
                        ELSE IF b = 9 THEN <<92, 116>>
                        ELSE IF b < 32 \/ b \in {60, 62, 38} THEN UEscape(b)
                        ELSE <<b>>) \o EncodeString(Tail(s))
             ELSE IF w = 3 /\ b = 226 /\ s[2] = 128 /\ s[3] \in {168, 169}
                  THEN UEscape(8232 + (s[3] - 168)) \o EncodeString(SubSeq(s, 4, Len(s)))
             ELSE SubSeq(s, 1, w) \o EncodeString(SubSeq(s, w + 1, Len(s)))

\* What a two-character escape stands for, or -1.
Unescaped(b) ==
    CASE b \in {34, 92, 47} -> b
      [] b = 98 -> 8
      [] b = 102 -> 12
      [] b = 110 -> 10
      [] b = 114 -> 13
      [] b = 116 -> 9
      [] OTHER -> -1

\* encoding/json's string decoder, on the text between the quotes: ok is
\* FALSE for a text that is no JSON string.
RECURSIVE DecodeString(_)
DecodeString(t) ==
    IF t = <<>> THEN [ok |-> TRUE, s |-> <<>>]
    ELSE LET b == t[1]
             n == Len(t)
             bad == [ok |-> FALSE, s |-> <<>>]
             then(head, k) ==
                 LET r == DecodeString(SubSeq(t, k + 1, n))
                 IN  IF r.ok THEN [ok |-> TRUE, s |-> head \o r.s] ELSE bad
         IN  IF b = 92
             THEN IF n < 2 THEN bad
                  ELSE IF t[2] = 117
                       THEN IF n >= 6 /\ \A j \in 3..6 : HexVal(t[j]) >= 0
                            THEN then(EncodeRune(HexVal(t[3]) * 4096 + HexVal(t[4]) * 256
                                                 + HexVal(t[5]) * 16 + HexVal(t[6])), 6)
                            ELSE bad
                       ELSE IF Unescaped(t[2]) >= 0 THEN then(<<Unescaped(t[2])>>, 2)
                       ELSE bad
             ELSE IF b = 34 \/ b < 32 THEN bad
             ELSE IF RuneLen(t) = 0 THEN then(EncodeRune(RuneError), 1)
             ELSE then(SubSeq(t, 1, RuneLen(t)), RuneLen(t))

\* An int32 is written in decimal.
MaxInt32 == 2147483647

RECURSIVE Digits(_)
Digits(n) == IF n < 10 THEN <<48 + n>> ELSE Append(Digits(n \div 10), 48 + (n % 10))

FormatInt(n) == IF n < 0 THEN <<45>> \o Digits(0 - n) ELSE Digits(n)

\* The number a text of digits stands for, or -1 when it is no JSON integer
\* or does not fit an int32.
RECURSIVE ParseDigits(_)
ParseDigits(t) ==
    IF t = <<>> \/ t[Len(t)] < 48 \/ t[Len(t)] > 57 THEN -1
    ELSE IF Len(t) = 1 THEN t[1] - 48
    ELSE LET v == ParseDigits(SubSeq(t, 1, Len(t) - 1))
             d == t[Len(t)] - 48
         IN  IF v <= 0 \/ v > (MaxInt32 - d) \div 10 THEN -1 ELSE v * 10 + d

ParseInt(t) ==
    IF t # <<>> /\ t[1] = 45
    THEN LET v == ParseDigits(Tail(t))
         IN  IF v < 0 THEN [ok |-> FALSE, n |-> 0] ELSE [ok |-> TRUE, n |-> 0 - v]
    ELSE LET v == ParseDigits(t)
         IN  IF v < 0 THEN [ok |-> FALSE, n |-> 0] ELSE [ok |-> TRUE, n |-> v]

\* json.Marshal(item): the JSON object of the item's exported fields, each
\* member as the text json.Marshal writes for it.  A struct of a string and
\* an integer always encodes, so err is always nil.
Marshal(item) ==
    [err |-> Nil,
     enc |-> [json |-> TRUE, ProductID |-> EncodeString(item.ProductID),
              Quantity |-> FormatInt(item.Quantity)]]

\* A stored element that is not the JSON of any CartItem.
Garbage == [json |-> FALSE, ProductID |-> <<>>, Quantity |-> <<>>]

ZeroItem == [ProductID |-> <<>>, Quantity |-> 0]

\* A json.Unmarshal that takes the text of a string for the string.
UnmarshalVerbatim(v) ==
    IF v.json /\ ParseInt(v.Quantity).ok
    THEN [err |-> Nil, item |-> [ProductID |-> v.ProductID, Quantity |-> ParseInt(v.Quantity).n]]
    ELSE [err |-> ErrDecode, item |-> ZeroItem]

\* json.Unmarshal([]byte(v), &item)
Unmarshal(v) ==
    IF v.json /\ DecodeString(v.ProductID).ok /\ ParseInt(v.Quantity).ok
    THEN [err |-> Nil, item |-> [ProductID |-> DecodeString(v.ProductID).s,
                                 Quantity |-> ParseInt(v.Quantity).n]]
    ELSE [err |-> ErrDecode, item |-> ZeroItem]

\* ------------------------------------------------- outcomes of a command
\* A command sent to the store either succeeds, fails in the network, or is
\* aborted by the caller's context; a failure or an abort may strike before
\* the store has applied the command or after it (the reply is lost).
Outcomes == {"ok", "fail", "lost", "cancel", "late"}

Applied(o) == o \in {"ok", "lost", "late"}

\* The error the go-redis command reports for an outcome (cmd.Err()).
Err(o) ==
    CASE o = "ok" -> Nil
      [] o \in {"fail", "lost"} -> ErrTransport
      [] OTHER -> ErrCanceled

\* ------------------------------------------------------------------ state
VARIABLES
    lists,      \* store: key -> list of encoded elements, <<>> when the key is absent
    expires,    \* store: key -> remaining ticks to live, 0 when no expiry is set
    call,       \* caller -> frame of the call it is making
    ret,        \* what the step just taken returned to its caller, NoRet if nothing
    hist,       \* history: key -> the Adds that ran on it, alone, since it was absent
    calls,      \* history: the number of calls made so far
    cfg,        \* the component's configuration: Host and TTL, two strings
    comp,       \* cartCacheImpl: where Init stands, c.ttl, c.redisCli, Init's error
    verdict,    \* what cfg.Validate() returned, "none" before it is called
    codec,      \* a CartItem on its way through json.Marshal and json.Unmarshal
    pair        \* history: the calls that run together on one key

vars == <<lists, expires, call, ret, hist, calls, cfg, comp, verdict, codec, pair>>

\* The state outside the store and the calls.
boot == <<cfg, comp, verdict, codec>>

NoTTL == 0

\* ------------------------------------------------------ the Redis commands
\* SET key element: the element replaces whatever the key holds.
LPushReplacing(ls, k, e) == [ls EXCEPT ![k] = <<e>>]

\* LPUSH key element: insert at the head of the list, creating the key.
LPush(ls, k, e) == [ls EXCEPT ![k] = <<e>> \o @]

\* EXPIRE that only sets an expiry where none is set (EXPIRE key seconds NX),
\* so that a later Add does not reset it.
ExpireIfNone(xs, ls, k, d) ==
    IF ls[k] # <<>> /\ xs[k] = NoTTL THEN [xs EXCEPT ![k] = d] ELSE xs

\* EXPIRE key seconds: set the time to live of an existing key; a key that
\* does not exist is left alone (the reply is 0, not an error).
Expire(xs, ls, k, d) == IF ls[k] # <<>> THEN [xs EXCEPT ![k] = d] ELSE xs

\* LPOP key: remove the element at the head of the list only.
DelHead(ls, k) == [ls EXCEPT ![k] = IF @ = <<>> THEN <<>> ELSE Tail(@)]

\* A DEL that the store acknowledges and does not carry out.
DelNothing(ls, k) == ls

\* FLUSHDB: remove every key.
DelEveryList(ls, k) == [j \in Keys |-> <<>>]

\* DEL key: remove the key with its list and its expiry.
DelList(ls, k) == [ls EXCEPT ![k] = <<>>]
DelExpire(xs, k) == [xs EXCEPT ![k] = NoTTL]

\* LRANGE key 0 -1: the whole list, head first; the empty list for a key
\* that does not exist.  The reply is an array, never the nil reply that
\* go-redis reports as redis.Nil.
LRange(ls, k, o) ==
    IF Err(o) = Nil THEN [val |-> ls[k], err |-> Nil]
                    ELSE [val |-> <<>>, err |-> Err(o)]

\* ------------------------------------------------------------ configuration
\* The strings a configuration may hold.  A host is an address or is empty.
\* A TTL is a duration of DurationStrings, or a string that is no duration:
\* empty, no number, or a number without a unit.
Hosts == {"", "redis:6379", "10.0.0.7:6379"}
DurationStrings == <<"1s", "2s", "3s", "4s">>
TTLStrings == {DurationStrings[n] : n \in DOMAIN DurationStrings} \cup {"", "notaduration", "30"}

Configs == [Host : Hosts, TTL : TTLStrings]

ErrInvalidDuration == "time: invalid duration"
ErrHostUnset == "distributed cache host must be set"
ErrTTLInvalid == "distributed cache TTL must be a valid duration"

\* time.ParseDuration(s): the duration in ticks (seconds), or an error.
ParseDuration(s) ==
    IF \E n \in DOMAIN DurationStrings : DurationStrings[n] = s
    THEN [d |-> CHOOSE n \in DOMAIN DurationStrings : DurationStrings[n] = s, err |-> Nil]
    ELSE [d |-> 0, err |-> ErrInvalidDuration]

\* (cfg *config) Validate(): the error it returns.
Validate(cf) ==
    IF cf.Host # "" THEN ErrHostUnset
    ELSE IF ParseDuration(cf.TTL).err # Nil THEN ErrTTLInvalid
    ELSE Nil

\* cartCacheImpl before Init: no TTL, no client.
NoClient == "none"
NewComp == [pc |-> "new", ttl |-> 0, redisCli |-> NoClient, pings |-> <<>>, err |-> Nil]

\* cartCacheImpl after an Init that returned nil, for a TTL of d ticks.
ReadyComp(cf) ==
    [pc |-> "ready", ttl |-> ParseDuration(cf.TTL).d, redisCli |-> cf.Host,
     pings |-> <<"ok">>, err |-> Nil]

NoCodec == [pc |-> "none", item |-> ZeroItem, enc |-> Garbage, out |-> ZeroItem, err |-> Nil]

\* ------------------------------------------------------------ call frames
\* pc: the method the caller is in; i: the loop index of Add (1-based).
\* History kept with the frame: issued, the store commands sent so far with
\* their outcomes; base, the key's list when Add was called; alone, whether
\* only this call has changed the key's list since.
IdleFrame ==
    [pc |-> "idle", key |-> "", val |-> <<>>, i |-> 0,
     issued |-> <<>>, base |-> <<>>, alone |-> TRUE]

InFlight(f) == f.pc # "idle"

\* The store command a frame issued, with its outcome (history).
Cmd(name, n, o) == [cmd |-> name, n |-> n, out |-> o]

\* History of a returned Get or Remove: the key's list as its command found
\* it, and the key's history at that moment.
NoSeen == [stored |-> <<>>, dirty |-> FALSE, n |-> 0, items |-> <<>>]

NoRet ==
    [op |-> "", caller |-> "", key |-> "", val |-> <<>>,
     cart |-> <<>>, ok |-> FALSE, err |-> Nil,
     issued |-> <<>>, base |-> <<>>, alone |-> TRUE, seen |-> NoSeen]

\* The record of a call of caller c, in frame f, returning.
Returned(c, f, cart, ok, err, seen) ==
    [op |-> f.pc, caller |-> c, key |-> f.key, val |-> f.val,
     cart |-> cart, ok |-> ok, err |-> err,
     issued |-> f.issued, base |-> f.base, alone |-> f.alone, seen |-> seen]

\* Items that the Adds in flight on key k have yet to push.
RECURSIVE Pending(_, _, _)
Pending(cl, k, cs) ==
    IF cs = {} THEN 0
    ELSE LET c == CHOOSE x \in cs : TRUE
             n == IF cl[c].pc = "Add" /\ cl[c].key = k
                  THEN Len(cl[c].val) - cl[c].i + 1 ELSE 0
         IN  n + Pending(cl, k, cs \ {c})

\* ---------------------------------------------------------------- history
\* dirty: something other than Adds running one after the other touched the
\* key; n: the number of such Adds that returned nil; items: their val
\* slices, concatenated in call order.
Fresh == [dirty |-> FALSE, n |-> 0, items |-> <<>>]

\* A key that is absent with no call in flight on it starts a new history.
Settle(h, ls, cl) ==
    [k \in Keys |->
        IF ls[k] = <<>> /\ ~ \E c \in Callers : InFlight(cl[c]) /\ cl[c].key = k
        THEN Fresh ELSE h[k]]

Dirty(h, k) == [h EXCEPT ![k] = [dirty |-> TRUE, n |-> 0, items |-> <<>>]]

\* Another caller changed the list of key k: the Adds in flight on k no
\* longer run alone.
Disturb(cl, c, k) ==
    [d \in Callers |->
        IF d # c /\ cl[d].pc = "Add" /\ cl[d].key = k
        THEN [cl[d] EXCEPT !.alone = FALSE, !.base = <<>>] ELSE cl[d]]

\* ------------------------------------------------- history of a pair
\* The history of the calls that run together on one key, kept from the
\* moment an Add is called on a key no other Add is in flight on.
\*   one      Add a (caller a, slice va) is in flight, called when the key's
\*            list was base; nothing else has changed the key since
\*   two      a second Add b (slice vb) was called while a was in flight;
\*            done of the two have returned nil
\*   both     both Adds have returned nil; nothing else has changed the key
\*   cut      another caller's Del took the key away after cut of a's pushes
\*   cutdone  a has then returned nil; nothing else has changed the key
\*   spoiled  something else happened: an Add of the pair returned an error,
\*            the key expired, or a third call changed the key
\*   idle     nothing to remember;  off: no history is kept in this run
PairOff ==
    [st |-> "off", key |-> "", base |-> <<>>, a |-> "", va |-> <<>>,
     b |-> "", vb |-> <<>>, done |-> 0, cut |-> 0]

PairIdle == [PairOff EXCEPT !.st = "idle"]
PairSpoiled == [PairOff EXCEPT !.st = "spoiled"]

\* A history that has reached its end is dropped at the next step.
Quiet(p) == IF p.st \in {"both", "cutdone"} THEN PairIdle ELSE p

\* Caller c calls op on key k.
OnCall(p, cl, c, op, k, v, ls) ==
    LET q == Quiet(p)
        adding == \E d \in Callers : cl[d].pc = "Add" /\ cl[d].key = k
    IN  IF q.st = "off" \/ op # "Add" THEN q
        ELSE IF ~adding
             THEN [PairIdle EXCEPT !.st = "one", !.key = k, !.base = ls[k], !.a = c, !.va = v]
        ELSE IF q.key # k THEN q
        ELSE IF q.st = "one" THEN [q EXCEPT !.st = "two", !.b = c, !.vb = v]
        ELSE PairSpoiled

\* The Add of caller c on key k returns err.
OnAddReturn(p, c, k, err) ==
    LET q == Quiet(p)
    IN  IF q.st \notin {"one", "two", "cut"} \/ q.key # k \/ c \notin {q.a, q.b} THEN q
        ELSE IF err # Nil THEN PairSpoiled
        ELSE IF q.st = "one" THEN PairIdle
        ELSE IF q.st = "cut" THEN [q EXCEPT !.st = "cutdone"]
        ELSE IF q.done = 1 THEN [q EXCEPT !.st = "both", !.done = 2]
        ELSE [q EXCEPT !.done = 1]

\* The store applies a Del of key k.
OnDel(p, cl, k) ==
    LET q == Quiet(p)
    IN  IF q.key # k THEN q
        ELSE IF q.st \in {"one", "cut"} THEN [q EXCEPT !.st = "cut", !.cut = cl[q.a].i - 1]
        ELSE IF q.st = "two" THEN PairSpoiled
        ELSE q

\* The keys of gone expire.
OnTick(p, gone) ==
    LET q == Quiet(p)
    IN  IF q.st \in {"one", "two", "cut"} /\ q.key \in gone THEN PairSpoiled ELSE q

\* ----------------------------------------------------------------- actions
\* A caller starts Add(ctx, key, val), Get(ctx, key) or Remove(ctx, key).
Call(c, op, k, v) ==
    /\ comp.pc = "ready"
    /\ call[c].pc = "idle"
    /\ calls < MaxCalls
    /\ calls' = calls + 1
    /\ op = "Add" => Len(lists[k]) + Pending(call, k, Callers) + Len(v) <= MaxLen
    /\ op # "Add" => v = <<>>
    /\ LET busy == \E d \in Callers \ {c} : InFlight(call[d]) /\ call[d].key = k
           f == [IdleFrame EXCEPT !.pc = op, !.key = k, !.val = v, !.i = 1,
                                  !.base = IF op = "Add" THEN lists[k] ELSE <<>>]
       IN  /\ call' = [call EXCEPT ![c] = f]
           /\ hist' = IF busy THEN Dirty(hist, k) ELSE hist
    /\ ret' = NoRet
    /\ pair' = OnCall(pair, call, c, op, k, v, lists)
    /\ UNCHANGED <<lists, expires, boot>>

\* An Add that goes on to the next item when a push fails.
AddPushGoingOn(c, o) ==
    LET f == call[c]
        k == f.key
        m == Marshal(f.val[f.i])
        ls == IF Applied(o) THEN LPush(lists, k, m.enc) ELSE lists
        g == [f EXCEPT !.issued = Append(@, Cmd("LPush", f.i, o))]
        cl == IF Applied(o) THEN Disturb(call, c, k) ELSE call
    IN  /\ f.pc = "Add"
        /\ f.i <= Len(f.val)
        /\ lists' = ls
        /\ call' = [cl EXCEPT ![c] = [g EXCEPT !.i = f.i + 1]]
        /\ hist' = IF Err(o) # Nil THEN Dirty(hist, k) ELSE hist
        /\ ret' = NoRet
        /\ pair' = Quiet(pair)
        /\ UNCHANGED <<expires, calls, boot>>

\* Add, one turn of the loop: encode val[i] and push it; an error of either
\* returns at once.
AddPush(c, o) ==
    LET f == call[c]
        k == f.key
        m == Marshal(f.val[f.i])
    IN  /\ f.pc = "Add"
        /\ f.i <= Len(f.val)
        /\ IF m.err # Nil
           THEN /\ call' = [call EXCEPT ![c] = IdleFrame]
                /\ ret' = Returned(c, f, <<>>, FALSE, m.err, NoSeen)
                /\ hist' = Settle(Dirty(hist, k), lists, call')
                /\ pair' = OnAddReturn(pair, c, k, m.err)
                /\ UNCHANGED <<lists, expires, calls, boot>>
           ELSE LET ls == IF Applied(o) THEN LPush(lists, k, m.enc) ELSE lists
                    g == [f EXCEPT !.issued = Append(@, Cmd("LPush", f.i, o))]
                    cl == IF Applied(o) THEN Disturb(call, c, k) ELSE call
                IN  /\ lists' = ls
                    /\ IF Err(o) # Nil
                       THEN /\ call' = [cl EXCEPT ![c] = IdleFrame]
                            /\ ret' = Returned(c, g, <<>>, FALSE, Err(o), NoSeen)
                            /\ hist' = Settle(Dirty(hist, k), ls, call')
                       ELSE /\ call' = [cl EXCEPT ![c] = [g EXCEPT !.i = f.i + 1]]
                            /\ hist' = hist
                            /\ ret' = NoRet
                    /\ pair' = IF Err(o) # Nil THEN OnAddReturn(pair, c, k, Err(o)) ELSE Quiet(pair)
                    /\ UNCHANGED <<expires, calls, boot>>

\* An Add that sends its set-expiry command without waiting for the pushes.
AddExpireEarly(c, o) ==
    LET f == call[c]
        k == f.key
        g == [f EXCEPT !.issued = Append(@, Cmd("Expire", 0, o))]
    IN  /\ f.pc = "Add"
        /\ expires' = IF Applied(o) THEN Expire(expires, lists, k, comp.ttl) ELSE expires
        /\ call' = [call EXCEPT ![c] = IdleFrame]
        /\ ret' = Returned(c, g, <<>>, FALSE, Err(o), NoSeen)
        /\ hist' = Settle(Dirty(hist, k), lists, call')
        /\ pair' = OnAddReturn(pair, c, k, Err(o))
        /\ UNCHANGED <<lists, calls, boot>>

\* An Add that returns nil at once when val is empty.
AddExpireUnlessEmpty(c, o) ==
    LET f == call[c]
        k == f.key
        g == [f EXCEPT !.issued = Append(@, Cmd("Expire", 0, o))]
    IN  /\ f.pc = "Add"
        /\ f.i > Len(f.val)
        /\ call' = [call EXCEPT ![c] = IdleFrame]
        /\ IF f.val = <<>>
           THEN /\ expires' = expires
                /\ ret' = Returned(c, f, <<>>, FALSE, Nil, NoSeen)
           ELSE /\ expires' = IF Applied(o) THEN Expire(expires, lists, k, comp.ttl) ELSE expires
                /\ ret' = Returned(c, g, <<>>, FALSE, Err(o), NoSeen)
        /\ hist' = Settle(Dirty(hist, k), lists, call')
        /\ pair' = OnAddReturn(pair, c, k, Err(o))
        /\ UNCHANGED <<lists, calls, boot>>

\* Add, after the loop: set the key's expiry to c.ttl and return.
AddExpire(c, o) ==
    LET f == call[c]
        k == f.key
        g == [f EXCEPT !.issued = Append(@, Cmd("Expire", 0, o))]
        h == IF Err(o) # Nil \/ hist[k].dirty \/ hist[k].n >= 2
             THEN Dirty(hist, k)
             ELSE [hist EXCEPT ![k].n = @ + 1, ![k].items = @ \o f.val]
    IN  /\ f.pc = "Add"
        /\ f.i > Len(f.val)
        /\ expires' = IF Applied(o) THEN Expire(expires, lists, k, comp.ttl) ELSE expires
        /\ call' = [call EXCEPT ![c] = IdleFrame]
        /\ ret' = Returned(c, g, <<>>, FALSE, Err(o), NoSeen)
        /\ hist' = Settle(h, lists, call')
        /\ pair' = OnAddReturn(pair, c, k, Err(o))
        /\ UNCHANGED <<lists, calls, boot>>

\* A Get that returns the items decoded before the element that fails.
GetResultPartial(r) ==
    IF r.err = RedisNil
    THEN [cart |-> <<>>, err |-> ErrNotFound]
    ELSE IF \E j \in 1..Len(r.val) : Unmarshal(r.val[j]).err # Nil
         THEN LET j == CHOOSE n \in 1..Len(r.val) :
                          /\ Unmarshal(r.val[n]).err # Nil
                          /\ \A t \in 1..(n - 1) : Unmarshal(r.val[t]).err = Nil
              IN  [cart |-> [t \in 1..(j - 1) |-> Unmarshal(r.val[t]).item],
                   err |-> Unmarshal(r.val[j]).err]
         ELSE [cart |-> [j \in 1..Len(r.val) |-> Unmarshal(r.val[j]).item], err |-> Nil]

\* What Get makes of the reply of LRange.
GetResult(r) ==
    IF r.err = RedisNil
    THEN [cart |-> <<>>, err |-> ErrNotFound]
    ELSE IF \E j \in 1..Len(r.val) : Unmarshal(r.val[j]).err # Nil
         THEN LET j == CHOOSE n \in 1..Len(r.val) :
                          /\ Unmarshal(r.val[n]).err # Nil
                          /\ \A t \in 1..(n - 1) : Unmarshal(r.val[t]).err = Nil
              IN  [cart |-> <<>>, err |-> Unmarshal(r.val[j]).err]
         ELSE [cart |-> [j \in 1..Len(r.val) |-> Unmarshal(r.val[j]).item], err |-> Nil]

\* A Get that renews the key's expiry when it reads it.
GetTouching(c, o) ==
    LET f == call[c]
        k == f.key
        r == LRange(lists, k, o)
        res == GetResult(r)
        g == [f EXCEPT !.issued = Append(@, Cmd("LRange", 0, o))]
        seen == [stored |-> lists[k], dirty |-> hist[k].dirty, n |-> hist[k].n,
                 items |-> hist[k].items]
    IN  /\ f.pc = "Get"
        /\ call' = [call EXCEPT ![c] = IdleFrame]
        /\ ret' = Returned(c, g, res.cart, FALSE, res.err, seen)
        /\ hist' = Settle(hist, lists, call')
        /\ expires' = IF Applied(o) THEN Expire(expires, lists, k, ttl) ELSE expires
        /\ pair' = Quiet(pair)
        /\ UNCHANGED <<lists, calls, boot>>

\* Get: read the list with LRange and decode it.
Get(c, o) ==
    LET f == call[c]
        k == f.key
        r == LRange(lists, k, o)
        res == GetResult(r)
        g == [f EXCEPT !.issued = Append(@, Cmd("LRange", 0, o))]
        seen == [stored |-> lists[k], dirty |-> hist[k].dirty, n |-> hist[k].n,
                 items |-> hist[k].items]
    IN  /\ f.pc = "Get"
        /\ call' = [call EXCEPT ![c] = IdleFrame]
        /\ ret' = Returned(c, g, res.cart, FALSE, res.err, seen)
        /\ hist' = Settle(hist, lists, call')
        /\ pair' = Quiet(pair)
        /\ UNCHANGED <<lists, expires, calls, boot>>

\* A Remove that reports whether Del removed a key.
RemoveReportingExistence(c, o) ==
    LET f == call[c]
        k == f.key
        g == [f EXCEPT !.issued = Append(@, Cmd("Del", 0, o))]
        seen == [NoSeen EXCEPT !.stored = lists[k]]
        cl == IF Applied(o) THEN Disturb(call, c, k) ELSE call
    IN  /\ f.pc = "Remove"
        /\ lists' = IF Applied(o) THEN DelList(lists, k) ELSE lists
        /\ expires' = IF Applied(o) THEN DelExpire(expires, k) ELSE expires
        /\ call' = [cl EXCEPT ![c] = IdleFrame]
        /\ ret' = IF Err(o) # Nil
                  THEN Returned(c, g, <<>>, FALSE, Err(o), seen)
                  ELSE Returned(c, g, <<>>, lists[k] # <<>>, Nil, seen)
        /\ hist' = Settle(Dirty(hist, k), lists', call')
        /\ pair' = IF Applied(o) THEN OnDel(pair, call, k) ELSE Quiet(pair)
        /\ UNCHANGED <<calls, boot>>

\* Remove: delete the key with Del.
Remove(c, o) ==
    LET f == call[c]
        k == f.key
        g == [f EXCEPT !.issued = Append(@, Cmd("Del", 0, o))]
        seen == [NoSeen EXCEPT !.stored = lists[k]]
        cl == IF Applied(o) THEN Disturb(call, c, k) ELSE call
    IN  /\ f.pc = "Remove"
        /\ lists' = IF Applied(o) THEN DelList(lists, k) ELSE lists
        /\ expires' = IF Applied(o) THEN DelExpire(expires, k) ELSE expires
        /\ call' = [cl EXCEPT ![c] = IdleFrame]
        /\ ret' = IF Err(o) # Nil
                  THEN Returned(c, g, <<>>, FALSE, Err(o), seen)
                  ELSE Returned(c, g, <<>>, TRUE, Nil, seen)
        /\ hist' = Settle(Dirty(hist, k), lists', call')
        /\ pair' = IF Applied(o) THEN OnDel(pair, call, k) ELSE Quiet(pair)
        /\ UNCHANGED <<calls, boot>>

\* The store's clock advances one tick: every expiry comes one tick nearer,
\* and a key whose time to live has elapsed is deleted.
Tick ==
    LET gone == {k \in Keys : expires[k] = 1}
    IN  /\ \E k \in Keys : expires[k] # NoTTL
        /\ expires' = [k \in Keys |-> IF expires[k] = NoTTL THEN NoTTL ELSE expires[k] - 1]
        /\ lists' = [k \in Keys |-> IF k \in gone THEN <<>> ELSE lists[k]]
        /\ call' = [d \in Callers |->
                      IF call[d].pc = "Add" /\ call[d].key \in gone
                      THEN [call[d] EXCEPT !.alone = FALSE, !.base = <<>>] ELSE call[d]]
        /\ hist' = Settle([k \in Keys |-> IF k \in gone
                                          THEN Dirty(hist, k)[k] ELSE hist[k]],
                          lists', call')
        /\ ret' = NoRet
        /\ pair' = OnTick(pair, gone)
        /\ UNCHANGED <<calls, boot>>

\* ------------------------------------------------------------ specification
Init ==
    /\ lists = [k \in Keys |-> <<>>]
    /\ expires = [k \in Keys |-> NoTTL]
    /\ call = [c \in Callers |-> IdleFrame]
    /\ ret = NoRet
    /\ hist = [k \in Keys |-> Fresh]
    /\ calls = 0
    /\ cfg \in {cf \in Configs : cf.Host = "redis:6379" /\ ParseDuration(cf.TTL) = [d |-> ttl, err |-> Nil]}
    /\ comp = ReadyComp(cfg)
    /\ verdict = "none"
    /\ codec = NoCodec
    /\ pair = PairOff

\* A caller starts a call on key k.
Start(c, k) == \E op \in {"Add", "Get", "Remove"}, v \in Vals : Call(c, op, k, v)

\* A call in flight sends its next store command, with some outcome.
Act(c) ==
    \E o \in Outcomes :
        \/ AddPush(c, o)
        \/ AddExpire(c, o)
        \/ Get(c, o)
        \/ Remove(c, o)

\* Concurrent callers of one cart.
Next ==
    \/ \E c \in Callers : Start(c, "k1")
    \/ \E c \in Callers : Act(c)
    \/ Tick

Spec == Init /\ [][Next]_vars

\* A store that holds a list written before the component started, by this
\* component or by any other client of the store: its elements need not be
\* the JSON of a CartItem.
Seeds == SeqsUpTo({Garbage, Marshal([ProductID |-> <<112, 49>>, Quantity |-> 1]).enc}, 2)

InitSeeded ==
    /\ lists \in {[k \in Keys |-> IF k = "k1" THEN s ELSE <<>>] : s \in Seeds}
    /\ expires \in {[k \in Keys |-> IF k = "k1" /\ lists[k] # <<>> THEN x ELSE NoTTL] :
                       x \in {NoTTL, ttl}}
    /\ call = [c \in Callers |-> IdleFrame]
    /\ ret = NoRet
    /\ hist = [k \in Keys |-> IF lists[k] = <<>> THEN Fresh ELSE Dirty([j \in Keys |-> Fresh], k)[k]]
    /\ calls = 0
    /\ cfg \in {cf \in Configs : cf.Host = "redis:6379" /\ ParseDuration(cf.TTL) = [d |-> ttl, err |-> Nil]}
    /\ comp = ReadyComp(cfg)
    /\ verdict = "none"
    /\ codec = NoCodec
    /\ pair = PairOff

\* One caller of one cart.
NextOne ==
    \/ Start("c1", "k1")
    \/ Act("c1")
    \/ Tick

SpecSeeded == InitSeeded /\ [][NextOne]_vars

\* A store that holds two carts when the component starts.
InitKeys ==
    /\ lists \in [Keys -> {sd \in Seeds : Len(sd) = 1}]
    /\ expires \in [Keys -> {NoTTL, ttl}]
    /\ call = [c \in Callers |-> IdleFrame]
    /\ ret = NoRet
    /\ hist = [k \in Keys |-> Dirty([j \in Keys |-> Fresh], k)[k]]
    /\ calls = 0
    /\ cfg \in {cf \in Configs : cf.Host = "redis:6379" /\ ParseDuration(cf.TTL) = [d |-> ttl, err |-> Nil]}
    /\ comp = ReadyComp(cfg)
    /\ verdict = "none"
    /\ codec = NoCodec
    /\ pair = PairOff

\* One caller of two carts, with two calls less to make.
NextKeys ==
    \/ calls < MaxCalls - 2 /\ \E k \in Keys : Start("c1", k)
    \/ Act("c1")
    \/ Tick

SpecKeys == InitKeys /\ [][NextKeys]_vars

\* Two callers of one cart, with one call less to make and the history of
\* the pair kept.
InitPair ==
    /\ lists = [k \in Keys |-> <<>>]
    /\ expires = [k \in Keys |-> NoTTL]
    /\ call = [c \in Callers |-> IdleFrame]
    /\ ret = NoRet
    /\ hist = [k \in Keys |-> Fresh]
    /\ calls = 0
    /\ cfg \in {cf \in Configs : cf.Host = "redis:6379" /\ ParseDuration(cf.TTL) = [d |-> ttl, err |-> Nil]}
    /\ comp = ReadyComp(cfg)
    /\ verdict = "none"
    /\ codec = NoCodec
    /\ pair = PairIdle

NextPair ==
    \/ calls < MaxCalls - 1 /\ \E c \in Callers : Start(c, "k1")
    \/ \E c \in Callers : Act(c)
    \/ Tick

SpecPair == InitPair /\ [][NextPair]_vars

\* ------------------------------------------------------------------ startup
\* cfg.Validate() is called on the configuration.
DoValidate ==
    /\ verdict = "none"
    /\ verdict' = Validate(cfg)
    /\ UNCHANGED <<lists, expires, call, ret, hist, calls, cfg, comp, codec, pair>>

\* An Init that creates its client before it looks at the error of the parse.
InitBeginClientFirst ==
    LET p == ParseDuration(cfg.TTL)
    IN  /\ comp.pc = "new"
        /\ comp' = IF p.err # Nil
                    THEN [comp EXCEPT !.pc = "failed", !.ttl = p.d, !.redisCli = cfg.Host,
                                      !.err = p.err]
                    ELSE [comp EXCEPT !.pc = "pinging", !.ttl = p.d, !.redisCli = cfg.Host]
        /\ UNCHANGED <<lists, expires, call, ret, hist, calls, cfg, verdict, codec, pair>>

\* Init, up to the liveness check: parse cfg.TTL into c.ttl and return its
\* error, or create the client for cfg.Host.
InitBegin ==
    LET p == ParseDuration(cfg.TTL)
    IN  /\ comp.pc = "new"
        /\ comp' = IF p.err # Nil
                    THEN [comp EXCEPT !.pc = "failed", !.ttl = p.d, !.err = p.err]
                    ELSE [comp EXCEPT !.pc = "pinging", !.ttl = p.d, !.redisCli = cfg.Host]
        /\ UNCHANGED <<lists, expires, call, ret, hist, calls, cfg, verdict, codec, pair>>

\* Init, the liveness check: send Ping once and return its error.
InitPing(o) ==
    /\ comp.pc = "pinging"
    /\ comp' = [comp EXCEPT !.pc = IF Err(o) = Nil THEN "ready" ELSE "failed",
                            !.pings = Append(@, o), !.err = Err(o)]
    /\ UNCHANGED <<lists, expires, call, ret, hist, calls, cfg, verdict, codec, pair>>

\* A component is built for some configuration; Validate and Init are called
\* on it, in either order.
InitStartup ==
    /\ lists = [k \in Keys |-> <<>>]
    /\ expires = [k \in Keys |-> NoTTL]
    /\ call = [c \in Callers |-> IdleFrame]
    /\ ret = NoRet
    /\ hist = [k \in Keys |-> Fresh]
    /\ calls = 0
    /\ cfg \in Configs
    /\ comp = NewComp
    /\ verdict = "none"
    /\ codec = NoCodec
    /\ pair = PairOff

NextStartup ==
    \/ DoValidate
    \/ InitBegin
    \/ \E o \in Outcomes : InitPing(o)

SpecStartup == InitStartup /\ [][NextStartup]_vars

\* ------------------------------------------------------------------ codec
\* The items put through the encoding: product identifiers of any bytes (a
\* letter, a digit, the quote, the backslash, <, the two bytes of U+00E9, the
\* three bytes of U+FFFD, and 255, which no UTF-8 sequence holds) and
\* quantities over the range of an int32.
IDBytes == {112, 49, 34, 92, 60, 195, 169, 239, 191, 189, 255}
AnyQuantities == {0 - MaxInt32, -7, 0, 10, MaxInt32}
AnyItem == [ProductID : SeqsUpTo(IDBytes, MaxIDLen), Quantity : AnyQuantities]

\* Add's json.Marshal(item), on its own.
Encode ==
    /\ codec.pc = "item"
    /\ codec' = [codec EXCEPT !.pc = "encoded", !.enc = Marshal(codec.item).enc,
                              !.err = Marshal(codec.item).err]
    /\ UNCHANGED <<lists, expires, call, ret, hist, calls, cfg, comp, verdict, pair>>

\* Get's json.Unmarshal of the element, on its own.
Decode ==
    /\ codec.pc = "encoded" /\ codec.err = Nil
    /\ codec' = [codec EXCEPT !.pc = "decoded", !.out = Unmarshal(codec.enc).item,
                              !.err = Unmarshal(codec.enc).err]
    /\ UNCHANGED <<lists, expires, call, ret, hist, calls, cfg, comp, verdict, pair>>

InitCodec ==
    /\ lists = [k \in Keys |-> <<>>]
    /\ expires = [k \in Keys |-> NoTTL]
    /\ call = [c \in Callers |-> IdleFrame]
    /\ ret = NoRet
    /\ hist = [k \in Keys |-> Fresh]
    /\ calls = 0
    /\ cfg \in {cf \in Configs : cf.Host = "redis:6379" /\ ParseDuration(cf.TTL) = [d |-> ttl, err |-> Nil]}
    /\ comp = ReadyComp(cfg)
    /\ verdict = "none"
    /\ codec \in {[pc |-> "item", item |-> i, enc |-> Garbage, out |-> ZeroItem, err |-> Nil] :
                     i \in AnyItem}
    /\ pair = PairOff

NextCodec == Encode \/ Decode

SpecCodec == InitCodec /\ [][NextCodec]_vars

\* ------------------------------------------------------------------ claims
\* The store command of the returned call that came last.
LastCmd(r) == r.issued[Len(r.issued)]

\* A Get returned whose LRange the store answered.
GetAnswered == ret.op = "Get" /\ LastCmd(ret).out = "ok"

\* C1: for a key absent beforehand and a non-empty items, an Add(k, items)
\* that returns nil followed by Get(k), with no other call and no expiry on k
\* in between, makes Get return items, in the same order.
C1_AddThenGet ==
    (GetAnswered /\ ~ret.seen.dirty /\ ret.seen.n = 1 /\ ret.seen.items # <<>>)
        => (ret.err = Nil /\ ret.cart = ret.seen.items)

\* C2: a Get on a key that is absent from the store returns the NotFound
\* error and no items, never an empty cart with a nil error.
C2_GetAbsentNotFound ==
    (GetAnswered /\ ret.seen.stored = <<>>)
        => (ret.err = ErrNotFound /\ ret.cart = <<>>)

\* C3: a call one of whose store commands failed returns a non-nil error.
C3_FailuresSurface ==
    (ret.op # "" /\ \E j \in 1..Len(ret.issued) : ret.issued[j].out # "ok")
        => ret.err # Nil

\* C4: for a key absent beforehand, two Adds that return nil one after the
\* other, with no Remove and no expiry in between, make Get return the items
\* of the first followed by the items of the second.
C4_AddAddGet ==
    (GetAnswered /\ ~ret.seen.dirty /\ ret.seen.n = 2)
        => (ret.err = Nil /\ ret.cart = ret.seen.items)

\* C10: a call whose store command was aborted by the caller's context
\* returns the context's error, and that command is the last it issued.
C10_CancelSurfaces ==
    \A j \in 1..Len(ret.issued) :
        ret.issued[j].out \in {"cancel", "late"}
            => (ret.err = ErrCanceled /\ j = Len(ret.issued))

\* The encoded items 1..n of val as n successive LPush leave them: last first.
Pushed(val, n) == [j \in 1..n |-> Marshal(val[n + 1 - j]).enc]

\* Caller c's Add takes a step: it sends a command and goes on or returns.
AddStep(c) ==
    /\ call[c].pc = "Add"
    /\ call'[c].pc = "idle" \/ call'[c].i = call[c].i + 1

\* C5: when the N-th item of an Add fails to encode or to be pushed, Add
\* returns that error at once (it goes on to the next item only after a
\* push that succeeded): items 1..N-1 were pushed, in order, and stay in the
\* store (no rollback), no item after N is attempted, no set-expiry command
\* is sent, and no step of the call changes any expiry.
C5_PartialFailure ==
    [][\A c \in Callers :
          (AddStep(c) /\ call[c].i <= Len(call[c].val)) =>
              /\ expires' = expires
              /\ call'[c].pc # "idle" =>
                    call'[c].issued[call[c].i] = Cmd("LPush", call[c].i, "ok")
              /\ call'[c].pc = "idle" =>
                    LET n == call[c].i
                        k == ret'.key
                    IN  /\ ret'.caller = c /\ ret'.op = "Add"
                        /\ ret'.err # Nil
                        /\ Len(ret'.issued) = n
                        /\ \A j \in 1..(n - 1) : ret'.issued[j] = Cmd("LPush", j, "ok")
                        /\ ret'.issued[n].cmd = "LPush" /\ ret'.issued[n].n = n
                        /\ ret'.err = Err(ret'.issued[n].out)
                        /\ ret'.alone =>
                              lists'[k] \in {Pushed(ret'.val, n - 1) \o ret'.base,
                                             Pushed(ret'.val, n) \o ret'.base}]_vars

\* An Add returned the error of its second push: the first item is in the
\* store, on top of the list and under the expiry that an earlier Add left.
C5_Witness ==
    /\ ret.op = "Add" /\ ret.err = ErrTransport
    /\ Len(ret.val) = 2 /\ Len(ret.issued) = 2
    /\ ret.issued[2] = Cmd("LPush", 2, "fail")
    /\ ret.alone /\ ret.base # <<>>
    /\ lists[ret.key] = Pushed(ret.val, 1) \o ret.base
    /\ expires[ret.key] \in 1..(ttl - 1)

\* C6 as claimed: every Add that returns nil has reset the key's expiry to
\* the full configured TTL, and an Add that returns an error has not changed
\* the key's expiry.
C6_Claimed ==
    [][\A c \in Callers :
          AddStep(c) =>
              IF call'[c].pc = "idle" /\ ret'.err = Nil
              THEN expires'[call[c].key] = ttl
              ELSE expires' = expires]_vars

\* C6, amended: an Add that returns nil has sent, after one successful push
\* per item, one set-expiry command, which sets the key's expiry to the full
\* configured TTL if the key exists at that moment and sets none on a key
\* that does not exist; the pushes change no expiry, so an Add that returns
\* the error of a push has changed none; an Add that returns the error of
\* the set-expiry command has left the expiry as it was or has reset it.
C6_ExpireOnSuccessPath ==
    [][\A c \in Callers :
          AddStep(c) =>
              LET f == call[c]
                  k == f.key
                  reset == IF lists[k] # <<>> THEN [expires EXCEPT ![k] = ttl] ELSE expires
              IN  IF f.i <= Len(f.val)
                  THEN /\ expires' = expires
                       /\ call'[c].pc = "idle" => ret'.err # Nil
                  ELSE /\ call'[c].pc = "idle" /\ ret'.caller = c /\ ret'.op = "Add"
                       /\ Len(ret'.issued) = Len(f.val) + 1
                       /\ \A j \in 1..Len(f.val) : ret'.issued[j] = Cmd("LPush", j, "ok")
                       /\ LastCmd(ret').cmd = "Expire"
                       /\ ret'.err = Err(LastCmd(ret').out)
                       /\ lists' = lists
                       /\ IF ret'.err = Nil
                          THEN expires' = reset
                          ELSE expires' \in {expires, reset}]_vars

\* A second Add on a key returned nil: the key's expiry, which had run down,
\* is the full TTL again.
C6_Witness ==
    /\ ret.op = "Add" /\ ret.err = Nil
    /\ ret.val # <<>> /\ ret.base # <<>> /\ ret.alone
    /\ lists[ret.key] = Pushed(ret.val, Len(ret.val)) \o ret.base
    /\ expires[ret.key] = ttl

\* C7: Get changes nothing in the store: the list and the expiry of every
\* key are after Get what they were before, whether it returns items, an
\* empty cart or an error.
C7_GetReadsOnly ==
    [][\A c \in Callers :
          (call[c].pc = "Get" /\ call'[c].pc = "idle") =>
              (ret'.op = "Get" /\ lists' = lists /\ expires' = expires)]_vars

\* A Get returned a decode error for a key whose expiry has run down: the
\* list is as Get found it and the expiry is not renewed.
C7_Witness ==
    /\ ret.op = "Get" /\ ret.err = ErrDecode
    /\ ret.seen.stored # <<>>
    /\ lists[ret.key] = ret.seen.stored
    /\ expires[ret.key] \in 1..(ttl - 1)

\* C8: Remove returns (true, nil) whenever Del succeeds, whether the key
\* existed or not, and (false, err) with the error of Del when Del fails.
C8_RemoveResult ==
    ret.op = "Remove" =>
        /\ Len(ret.issued) = 1 /\ ret.issued[1].cmd = "Del"
        /\ IF ret.issued[1].out = "ok"
           THEN ret.ok /\ ret.err = Nil
           ELSE ~ret.ok /\ ret.err = Err(ret.issued[1].out)
                /\ ret.err \in {ErrTransport, ErrCanceled}

\* A Remove of a key that did not exist returned (true, nil).
C8_Witness ==
    /\ ret.op = "Remove" /\ ret.ok /\ ret.err = Nil
    /\ ret.seen.stored = <<>>

\* C9: a Get that finds the key returns one CartItem for each stored
\* element, in the order of the store; if a stored element fails to decode
\* it returns the decode error and no item.
C9_GetDecodesAll ==
    (GetAnswered /\ ret.seen.stored # <<>>) =>
        LET st == ret.seen.stored
        IN  IF \A j \in 1..Len(st) : Unmarshal(st[j]).err = Nil
            THEN /\ ret.err = Nil
                 /\ Len(ret.cart) = Len(st)
                 /\ \A j \in 1..Len(st) : ret.cart[j] = Unmarshal(st[j]).item
            ELSE ret.err = ErrDecode /\ ret.cart = <<>>

\* A Get found a list whose second element is not a CartItem: it returned
\* the decode error and not the first item.
C9_Witness ==
    /\ GetAnswered
    /\ Len(ret.seen.stored) = 2
    /\ Unmarshal(ret.seen.stored[1]).err = Nil
    /\ Unmarshal(ret.seen.stored[2]).err # Nil
    /\ ret.err = ErrDecode /\ ret.cart = <<>>

\* C11: Validate fails when the host is empty and fails when the TTL string
\* is no duration; it succeeds for a non-empty host with a TTL that is one.
C11_Validate ==
    verdict # "none" =>
        (verdict = Nil <=> (cfg.Host # "" /\ ParseDuration(cfg.TTL).err = Nil))

\* C12: an Init whose TTL string is no duration returns the error of the
\* parse with no client created and no liveness check sent; with a TTL that
\* is one, Init returns nil only after one liveness check that succeeded,
\* and it never sends a second one.
C12_InitOrder ==
    /\ Len(comp.pings) <= 1
    /\ ParseDuration(cfg.TTL).err # Nil =>
          /\ comp.pc \in {"new", "failed"}
          /\ comp.redisCli = NoClient /\ comp.pings = <<>>
          /\ comp.pc = "failed" => comp.err = ErrInvalidDuration
    /\ comp.pc = "ready" =>
          /\ comp.pings = <<"ok">> /\ comp.err = Nil
          /\ comp.redisCli = cfg.Host
          /\ comp.ttl = ParseDuration(cfg.TTL).d
    /\ (comp.pc = "failed" /\ ParseDuration(cfg.TTL).err = Nil) =>
          /\ Len(comp.pings) = 1 /\ comp.pings[1] # "ok"
          /\ comp.err = Err(comp.pings[1])

\* Init returned the error of the parse: no client, no liveness check.
C12_Witness ==
    /\ cfg.TTL = "notaduration"
    /\ comp.pc = "failed" /\ comp.err = ErrInvalidDuration
    /\ comp.redisCli = NoClient /\ comp.pings = <<>>

\* C13 as claimed: for any CartItem i, decode(encode(i)) = i.
C13_Claimed ==
    codec.pc = "decoded" => (codec.err = Nil /\ codec.out = codec.item)

\* C13: for any CartItem whose product identifier is valid UTF-8, the
\* encoding of the item decodes without error to an item equal to it; an
\* identifier that is not valid UTF-8 decodes without error to another one.
C13_RoundTrip ==
    codec.pc = "decoded" =>
        /\ codec.err = Nil
        /\ codec.out.Quantity = codec.item.Quantity
        /\ ValidUTF8(codec.item.ProductID) <=> codec.out = codec.item

\* An identifier the encoding has to escape came back as it was.
C13_Witness ==
    /\ codec.pc = "decoded"
    /\ codec.item = [ProductID |-> <<92, 34>>, Quantity |-> 0 - MaxInt32]
    /\ codec.enc.ProductID = <<92, 92, 92, 34>>
    /\ codec.out = codec.item

\* The pushes of items 1..n, each one successful, in this order.
OkPushes(n) == [j \in 1..n |-> Cmd("LPush", j, "ok")]

\* C14: within one Add the pushes are sent one after the other, in the order
\* of val: the push of item j+1 is sent only after the push of item j has
\* succeeded, and the set-expiry command only after the push of the last
\* item has succeeded; while no other call and no expiry changes the key,
\* the pushes sent so far are in the store, in that order.
C14_Sequential ==
    /\ \A c \in Callers :
          call[c].pc = "Add" =>
              /\ call[c].issued = OkPushes(call[c].i - 1)
              /\ call[c].alone =>
                    lists[call[c].key] = Pushed(call[c].val, call[c].i - 1) \o call[c].base
    /\ ret.op = "Add" =>
          LET n == Len(ret.issued)
              last == ret.issued[n]
          IN  /\ n >= 1 /\ n <= Len(ret.val) + 1
              /\ SubSeq(ret.issued, 1, n - 1) = OkPushes(n - 1)
              /\ \/ last.cmd = "Expire" /\ n = Len(ret.val) + 1 /\ ret.err = Err(last.out)
                 \/ last = Cmd("LPush", n, last.out) /\ last.out # "ok" /\ ret.err = Err(last.out)

\* An Add of two items returned nil: two pushes, then the set-expiry command.
C14_Witness ==
    /\ ret.op = "Add" /\ ret.err = Nil /\ Len(ret.val) = 2
    /\ ret.issued = Append(OkPushes(2), Cmd("Expire", 0, "ok"))
    /\ ret.alone /\ lists[ret.key] = Pushed(ret.val, 2) \o ret.base

\* Key k does not exist in the store: no list, no expiry.
Absent(ls, xs, k) == ls[k] = <<>> /\ xs[k] = NoTTL

AddInFlight(cl, k) == \E c \in Callers : cl[c].pc = "Add" /\ cl[c].key = k

\* C15: when Remove(k) returns (true, nil) with no Add on k in flight, k is
\* absent from the store, list and expiry, whatever was stored under k
\* before; and a key that is absent stays absent as long as no Add on it is
\* in flight.
C15_RemoveDeletes ==
    [][/\ (ret'.op = "Remove" /\ ret'.ok /\ ~AddInFlight(call', ret'.key))
            => Absent(lists', expires', ret'.key)
       /\ \A k \in Keys :
            (Absent(lists, expires, k) /\ ~AddInFlight(call, k))
                => Absent(lists', expires', k)]_vars

\* Remove returned (true, nil) on a key that held two items, with no Add in
\* flight on it.
C15_Witness ==
    /\ ret.op = "Remove" /\ ret.ok /\ ret.err = Nil
    /\ Len(ret.seen.stored) = 2
    /\ ~AddInFlight(call, ret.key)
    /\ Absent(lists, expires, ret.key)

\* C16: an Add with an empty val sends no push and one set-expiry command;
\* while no other call and no expiry changes the key, it leaves the list as
\* it was: a key that is absent stays absent, with no expiry, and a key that
\* is present has its expiry reset to c.ttl when the command succeeds.
C16_EmptyAdd ==
    (ret.op = "Add" /\ ret.val = <<>>) =>
        /\ Len(ret.issued) = 1
        /\ ret.issued[1].cmd = "Expire"
        /\ ret.err = Err(ret.issued[1].out)
        /\ ret.alone =>
              /\ lists[ret.key] = ret.base
              /\ ret.base = <<>> => expires[ret.key] = NoTTL
              /\ (ret.base # <<>> /\ ret.err = Nil) => expires[ret.key] = comp.ttl

\* An Add with an empty val returned nil on a key that is present.
C16_Witness ==
    /\ ret.op = "Add" /\ ret.val = <<>> /\ ret.err = Nil
    /\ ret.alone /\ ret.base # <<>>
    /\ lists[ret.key] = ret.base /\ expires[ret.key] = comp.ttl

\* An Add with an empty val returned nil on a key that is absent.
C16_WitnessAbsent ==
    /\ ret.op = "Add" /\ ret.val = <<>> /\ ret.err = Nil
    /\ ret.alone /\ Absent(lists, expires, ret.key)

\* Caller c's call sends a store command or returns.
CallStep(c) ==
    /\ call[c].pc # "idle"
    /\ call'[c].pc = "idle" \/ call'[c].issued # call[c].issued

\* C17: a step of Add, Get or Remove on key k, whatever its outcome, leaves
\* the list and the expiry of every other key as they were.
C17_OtherKeys ==
    [][\A c \in Callers :
          CallStep(c) =>
              \A k \in Keys \ {call[c].key} :
                  lists'[k] = lists[k] /\ expires'[k] = expires[k]]_vars

\* A Remove on one key deleted it, and the other key still holds its list
\* and its expiry.
C17_Witness ==
    /\ ret.op = "Remove" /\ ret.ok /\ ret.seen.stored # <<>> /\ lists[ret.key] = <<>>
    /\ \E k \in Keys \ {ret.key} : lists[k] # <<>> /\ expires[k] = ttl

\* C18: whenever no Add on key k is in flight, a key k that is present has
\* an expiry set, after any sequence of calls, expiries, failed and cancelled
\* Adds.
C18_PresentHasExpiry ==
    \A k \in Keys :
        (~AddInFlight(call, k) /\ lists[k] # <<>>) => expires[k] # NoTTL

\* s holds the elements of x and of y, each once per occurrence, those of x
\* in the order of x and those of y in the order of y.
RECURSIVE Interleaved(_, _, _)
Interleaved(s, x, y) ==
    IF s = <<>> THEN x = <<>> /\ y = <<>>
    ELSE \/ x # <<>> /\ s[1] = x[1] /\ Interleaved(Tail(s), Tail(x), y)
         \/ y # <<>> /\ s[1] = y[1] /\ Interleaved(Tail(s), x, Tail(y))

\* C19: when two Adds that ran together on one key have both returned nil,
\* with no Remove, no expiry and no other Add on the key meanwhile, the list
\* holds, on top of what it held before, the items of both calls, each once
\* per occurrence, and the items of each call in the order they have when
\* that call runs alone.
C19_BothAdds ==
    pair.st = "both" =>
        LET ls == lists[pair.key]
            n == Len(pair.va) + Len(pair.vb)
        IN  /\ Len(ls) = n + Len(pair.base)
            /\ SubSeq(ls, n + 1, Len(ls)) = pair.base
            /\ Interleaved(SubSeq(ls, 1, n), Pushed(pair.va, Len(pair.va)),
                           Pushed(pair.vb, Len(pair.vb)))

\* Both Adds returned nil, and the item of one call lies between the two
\* items of the other.
C19_Witness ==
    /\ pair.st = "both" /\ Len(pair.va) = 2 /\ Len(pair.vb) = 1
    /\ pair.va[1] # pair.va[2] /\ pair.base = <<>>
    /\ lists[pair.key] = <<Marshal(pair.va[2]).enc, Marshal(pair.vb[1]).enc,
                           Marshal(pair.va[1]).enc>>

\* C20: when the Del of another caller's Remove is applied while an Add with
\* a non-empty val is in flight, and the Add returns nil, the key holds what
\* the Add pushed after the Del, in the order the Add pushes it, with the
\* expiry that Add set, or the key is absent when nothing was pushed after
\* the Del; and an Add that returns nil never leaves the key present without
\* an expiry.
C20_RemoveDuringAdd ==
    /\ (pair.st = "cutdone" /\ pair.va # <<>>) =>
          LET n == Len(pair.va)
              m == n - pair.cut
          IN  /\ lists[pair.key] = [j \in 1..m |-> Marshal(pair.va[n + 1 - j]).enc]
              /\ expires[pair.key] = IF m > 0 THEN comp.ttl ELSE NoTTL
    /\ (ret.op = "Add" /\ ret.err = Nil /\ lists[ret.key] # <<>>)
          => expires[ret.key] = comp.ttl

\* A Del came between the two pushes of an Add: the key holds the second
\* item only, with the expiry the Add set.
C20_Witness ==
    /\ pair.st = "cutdone" /\ Len(pair.va) = 2 /\ pair.cut = 1
    /\ lists[pair.key] = <<Marshal(pair.va[2]).enc>>
    /\ expires[pair.key] = comp.ttl
    /\ ret.op = "Add" /\ ret.err = Nil

====
